---- MODULE Spec2Model ----
(***************************************************************************)
(* Model of src/jobs_report.py: the weekly job-postings snapshot.          *)
(*                                                                         *)
(* Dates are day ordinals counted from 2024-06-21 (day 0), so that         *)
(* pd.Timedelta(days=7) is the integer 7 and the SEASONS table keeps its   *)
(* calendar bounds: 2024-09-20 = 91, 2024-12-20 = 182, 2025-03-19 = 271,   *)
(* 2025-06-20 = 364.  Index values are integers.  A mean is kept as the    *)
(* exact fraction [num, den]; a fraction with den = 0 is the NaN that      *)
(* pandas returns for the mean of an empty selection.                      *)
(*                                                                         *)
(* A DataFrame is a sequence of rows in row order; every row carries the   *)
(* row label (`label`) that read_csv gave it, which sort_values keeps.     *)
(***************************************************************************)
EXTENDS Integers, Sequences, FiniteSets, TLC

VARIABLES
    csv_agg,      \* rows of the aggregate CSV, in file order
    csv_sector,   \* rows of the sector CSV, in file order
    agg_df,       \* fetch_aggregate()'s frame
    sector_df,    \* fetch_sectors()'s frame
    pc,           \* "start" | "loaded" | "returned" | "extended"
    call,         \* the last call: its function and arguments
    ret           \* what the last call returned or raised

vars == <<csv_agg, csv_sector, agg_df, sector_df, pc, call, ret>>

----------------------------------------------------------------------------
(* Bounds of the input space *)

\* index values range over 0..MaxVal
MaxVal == 1

Values == 0..MaxVal

\* sector names, listed in lexicographic (code point) order
SectorPool == <<"Banking", "Retail", "Tech">>

Sectors == {SectorPool[i] : i \in DOMAIN SectorPool}

\* the dates of the data: 2025-06-20 (the last day of Spring 2025), then
\* 2025-06-21, 2025-07-12, 2025-07-19 (a day with its week and its four
\* weeks before) and 2025-07-26
SectorDates == {364, 365, 386, 393, 400}

\* the national series also reaches back to 2025-03-19 and 2025-03-20, the
\* last day of Winter 2024-25 and the first of Spring 2025
NationalDates == {271, 272, 364, 365, 386, 393}

\* the dates the analysis is asked about
CallDates == {393, 400}

----------------------------------------------------------------------------
(* Config *)

SEASONS == <<
    [name |-> "Summer 2024",    start |-> 0,   end |-> 91],
    [name |-> "Fall 2024",      start |-> 92,  end |-> 182],
    [name |-> "Winter 2024-25", start |-> 183, end |-> 271],
    [name |-> "Spring 2025",    start |-> 272, end |-> 364] >>

SeasonNames == {SEASONS[k].name : k \in DOMAIN SEASONS}

WEEK == 7

FOUR_WEEKS == 28

----------------------------------------------------------------------------
(* Generic helpers *)

RECURSIVE SumSeq(_)
SumSeq(s) == IF s = <<>> THEN 0 ELSE Head(s) + SumSeq(Tail(s))

\* the rows of set S as the sequence ordered by `before`, a strict total
\* order on S given as its set of pairs
SortedBy(S, before) ==
    [i \in 1..Cardinality(S) |->
        CHOOSE r \in S : Cardinality({q \in S : <<q, r>> \in before}) = i - 1]

NameRank(n) == CHOOSE i \in DOMAIN SectorPool : SectorPool[i] = n

\* Python's str comparison on the sector names of the pool
NameLess(a, b) == NameRank(a) < NameRank(b)

Column(df, col) == [i \in DOMAIN df |-> df[i][col]]

IndexError == [kind |-> "error", exc |-> "IndexError"]

AttributeError == [kind |-> "error", exc |-> "AttributeError"]

----------------------------------------------------------------------------
(* Data fetch *)

\* pd.read_csv: rows in file order, labelled 0..n-1 (RangeIndex)
read_csv(csv) == {[label |-> i - 1, row |-> csv[i]] : i \in DOMAIN csv}

fetch_aggregate(csv) ==
    LET rows == {[label |-> r.label, date |-> r.row.date, value |-> r.row.index]
                    : r \in read_csv(csv)}
    IN  SortedBy(rows, {p \in rows \X rows : p[1].date < p[2].date})

fetch_sectors(csv) ==
    LET rows == {[label |-> r.label, date |-> r.row.date,
                  sector |-> r.row.sector, index |-> r.row.index]
                    : r \in read_csv(csv)}
    IN  SortedBy(rows, {p \in rows \X rows :
                    \/ NameLess(p[1].sector, p[2].sector)
                    \/ p[1].sector = p[2].sector /\ p[1].date < p[2].date})

----------------------------------------------------------------------------
(* Helpers *)

\* a variant of SeasonMask: the window's last day is left out
SeasonMask_open_end(dates, start, end) ==
    [i \in DOMAIN dates |-> dates[i] >= start /\ dates[i] < end]

\* mask = (dates.dt.date >= start) & (dates.dt.date <= end)
SeasonMask(dates, start, end) ==
    [i \in DOMAIN dates |-> dates[i] >= start /\ dates[i] <= end]

MaskAny(mask) == \E i \in DOMAIN mask : mask[i]

\* series[mask].mean()
MaskedMean(series, mask) ==
    LET sel == SelectSeq([i \in DOMAIN series |-> <<series[i], mask[i]>>],
                         LAMBDA p : p[2])
    IN  [num |-> SumSeq([i \in DOMAIN sel |-> sel[i][1]]), den |-> Len(sel)]

\* has_mean: whether the object passed as `series` provides .mean(): a Series
\* (a column) does; the row Index of a frame does so only in some pandas
\* builds, and the call raises AttributeError in the others.
seasonal_means(series, dates, has_mean) ==
    LET hit == {k \in DOMAIN SEASONS :
                    MaskAny(SeasonMask(dates, SEASONS[k].start, SEASONS[k].end))}
    IN  IF hit # {} /\ ~has_mean
        THEN AttributeError
        ELSE [kind |-> "seasonal",
              out  |-> [n \in {SEASONS[k].name : k \in hit} |->
                          LET k == CHOOSE j \in hit : SEASONS[j].name = n
                          IN  MaskedMean(series,
                                SeasonMask(dates, SEASONS[k].start, SEASONS[k].end))]]

pct_point_change(new, old) == new - old

----------------------------------------------------------------------------
(* Analysis *)

AtDate(df, d) == SelectSeq(df, LAMBDA r : r.date = d)

\* left.merge(right, on="sector", suffixes=("_new", "_old")): an inner join
\* that keeps the order of the left rows
RECURSIVE merge(_, _)
merge(left, right) ==
    IF left = <<>>
    THEN <<>>
    ELSE LET l == Head(left)
             m == SelectSeq(right, LAMBDA r : r.sector = l.sector)
         IN  [i \in 1..Len(m) |->
                [sector    |-> l.sector,
                 index_new |-> l.index,
                 index_old |-> m[i].index]]
             \o merge(Tail(left), right)

\* a variant of compute_breadth: a sector with equal values counts as expanding
compute_breadth_ge(df, today) ==
    LET gains     == merge(AtDate(df, today), AtDate(df, today - WEEK))
        expanding == {i \in DOMAIN gains : gains[i].index_new >= gains[i].index_old}
    IN  [kind |-> "breadth",
         pct  |-> [num |-> 100 * Cardinality(expanding), den |-> Len(gains)],
         n    |-> Len(gains)]

\* a variant of compute_breadth: the comparison is the wrong way round
compute_breadth_inverted(df, today) ==
    LET gains     == merge(AtDate(df, today), AtDate(df, today - WEEK))
        expanding == {i \in DOMAIN gains : gains[i].index_new < gains[i].index_old}
    IN  [kind |-> "breadth",
         pct  |-> [num |-> 100 * Cardinality(expanding), den |-> Len(gains)],
         n    |-> Len(gains)]

\* (gains.index_new > gains.index_old).mean() * 100 as the fraction 100*k/n;
\* for an empty `gains` the mean is NaN (den = 0) and nothing is raised
compute_breadth(df, today) ==
    LET last_week == today - WEEK
        gains     == merge(AtDate(df, today), AtDate(df, last_week))
        expanding == {i \in DOMAIN gains : gains[i].index_new > gains[i].index_old}
    IN  [kind |-> "breadth",
         pct  |-> [num |-> 100 * Cardinality(expanding), den |-> Len(gains)],
         n    |-> Len(gains)]

WithDelta(merged) ==
    [i \in DOMAIN merged |->
        [sector    |-> merged[i].sector,
         index_new |-> merged[i].index_new,
         index_old |-> merged[i].index_old,
         delta_pp  |-> merged[i].index_new - merged[i].index_old]]

\* a variant of FirstDescending: .iloc[0] without the sort
FirstDescending_unsorted(merged) == {merged[1]}

\* merged.sort_values("delta_pp", ascending=False).iloc[0]: sort_values uses
\* kind="quicksort", which is not stable, so the first row of the sorted frame
\* is any of the rows that hold the extreme delta_pp
FirstDescending(merged) ==
    {merged[i] : i \in {j \in DOMAIN merged :
        \A k \in DOMAIN merged : merged[j].delta_pp >= merged[k].delta_pp}}

\* a variant of FirstAscending: the laggard's sort is descending too
FirstAscending_descending(merged) ==
    {merged[i] : i \in {j \in DOMAIN merged :
        \A k \in DOMAIN merged : merged[j].delta_pp >= merged[k].delta_pp}}

FirstAscending(merged) ==
    {merged[i] : i \in {j \in DOMAIN merged :
        \A k \in DOMAIN merged : merged[j].delta_pp <= merged[k].delta_pp}}

\* the set of outcomes: .iloc[0] of an empty frame raises IndexError
identify_leaders_laggards(df, today) ==
    LET last_week == today - WEEK
        latest    == AtDate(df, today)
        prior     == AtDate(df, last_week)
        merged    == WithDelta(merge(latest, prior))
    IN  IF merged = <<>>
        THEN {IndexError}
        ELSE {[kind |-> "leaders", leader |-> l, laggard |-> g] :
                l \in FirstDescending(merged), g \in FirstAscending(merged)}

\* a variant of sector_long_view: a missing observation four weeks back
\* counts as 0
sector_long_view_default(df0, sector_name, today, index_has_mean) ==
    LET df       == SelectSeq(df0, LAMBDA r : r.sector = sector_name)
        cur      == AtDate(df, today)
        prev     == AtDate(df, today - FOUR_WEEKS)
        seasonal == seasonal_means(Column(df, "label"), Column(df, "date"),
                                   index_has_mean)
    IN  IF cur = <<>>
        THEN IndexError
        ELSE IF seasonal.kind = "error"
        THEN seasonal
        ELSE [kind        |-> "long_view",
              current     |-> cur[1].index,
              delta_month |-> pct_point_change(cur[1].index,
                                IF prev = <<>> THEN 0 ELSE prev[1].index),
              seasonal    |-> seasonal.out]

\* df.index is the frame's row Index (the row labels), not its "index" column
sector_long_view(df0, sector_name, today, index_has_mean) ==
    LET df            == SelectSeq(df0, LAMBDA r : r.sector = sector_name)
        one_month_ago == today - FOUR_WEEKS
        cur           == AtDate(df, today)
        prev          == AtDate(df, one_month_ago)
        seasonal      == seasonal_means(Column(df, "label"), Column(df, "date"),
                                        index_has_mean)
    IN  IF cur = <<>> \/ prev = <<>>
        THEN IndexError
        ELSE IF seasonal.kind = "error"
        THEN seasonal
        ELSE [kind        |-> "long_view",
              current     |-> cur[1].index,
              delta_month |-> pct_point_change(cur[1].index, prev[1].index),
              seasonal    |-> seasonal.out]

MaxDate(df) == CHOOSE d \in {df[i].date : i \in DOMAIN df} :
                    \A i \in DOMAIN df : df[i].date <= d

\* the values build_summary interpolates into the report, or the exception
SummaryFor(agg, sec, today, ll, index_has_mean) ==
    LET last_week     == today - WEEK
        one_month_ago == today - FOUR_WEEKS
        latest        == AtDate(agg, today)
        prior         == AtDate(agg, last_week)
        prev_month    == AtDate(agg, one_month_ago)
        breadth       == compute_breadth(sec, today)
        nat_seasonal  == seasonal_means(Column(agg, "value"), Column(agg, "date"), TRUE)
        lead          == sector_long_view(sec, ll.leader.sector, today, index_has_mean)
        lag           == sector_long_view(sec, ll.laggard.sector, today, index_has_mean)
    IN  IF latest = <<>> \/ prior = <<>> \/ prev_month = <<>>
        THEN IndexError
        ELSE IF ll.kind = "error"
        THEN ll
        ELSE IF lead.kind = "error"
        THEN lead
        ELSE IF lag.kind = "error"
        THEN lag
        ELSE [kind         |-> "summary",
              today        |-> today,
              latest       |-> latest[1].value,
              delta_pp     |-> pct_point_change(latest[1].value, prior[1].value),
              delta_month  |-> pct_point_change(latest[1].value, prev_month[1].value),
              breadth_pct  |-> breadth.pct,
              n_sector     |-> breadth.n,
              nat_seasonal |-> nat_seasonal.out,
              leader       |-> ll.leader,
              lead_curr    |-> lead.current,
              lead_mo      |-> lead.delta_month,
              lead_seas    |-> lead.seasonal,
              laggard      |-> ll.laggard,
              lag_curr     |-> lag.current,
              lag_mo       |-> lag.delta_month,
              lag_seas     |-> lag.seasonal]

\* today = agg_df.date.max(); the max of an empty column is NaT, which no row
\* matches, so the first lookup raises IndexError
Anchor(agg) == MaxDate(agg)

\* a variant of build_summary: the leader and the laggard are those of the
\* sector frame's own latest date
build_summary_sector_anchor(agg, sec, index_has_mean) ==
    IF agg = <<>>
    THEN {IndexError}
    ELSE {SummaryFor(agg, sec, Anchor(agg), ll, index_has_mean) :
            ll \in identify_leaders_laggards(sec,
                      IF sec = <<>> THEN Anchor(agg) ELSE MaxDate(sec))}

\* the set of outcomes of build_summary(agg_df, sector_df)
build_summary(agg, sec, index_has_mean) ==
    IF agg = <<>>
    THEN {IndexError}
    ELSE {SummaryFor(agg, sec, Anchor(agg), ll, index_has_mean) :
            ll \in identify_leaders_laggards(sec, Anchor(agg))}

----------------------------------------------------------------------------
(* Inputs *)

\* every series (date -> value) over a subset of the dates D
SeriesOver(D) == UNION {[S -> Values] : S \in SUBSET D}

\* a reference data set: Banking expands over the week to 2025-07-19,
\* Retail contracts, Tech is flat and is the one series that starts earlier
\* and extends further
RefSector(s, d) ==
    CASE s = "Banking" -> IF d >= 393 THEN 1 ELSE 0
      [] s = "Retail"  -> IF d >= 393 THEN 0 ELSE 1
      [] OTHER         -> IF d \in {386, 393} THEN 1 ELSE 0

RefCells == (Sectors \X {365, 386, 393}) \cup {<<"Tech", 364>>, <<"Tech", 400>>}

RefSectors ==
    [s \in Sectors |->
        [d \in {e \in SectorDates : <<s, e>> \in RefCells} |-> RefSector(s, d)]]

RefNational == [d \in {365, 386, 393} |-> IF d = 365 THEN 0 ELSE 1]

\* the inputs: <<national series, sector -> series>>.  Three families, each
\* spanning one dimension of the data beside the reference for the other:
\*   - any national series over NationalDates;
\*   - any values, or none, for each sector on the compared week, every
\*     sector holding its observation of four weeks before;
\*   - any set of (sector, date) observations up to 2025-07-19, with the
\*     reference's values.
NationalFamily == {<<nat, RefSectors>> : nat \in SeriesOver(NationalDates)}

WeekFamily ==
    {<<RefNational,
       [s \in Sectors |->
           [d \in DOMAIN w[s] \cup {365} |->
               IF d = 365 THEN RefSector(s, d) ELSE w[s][d]]]>> :
        w \in [Sectors -> SeriesOver({386, 393})]}

CoverageFamily ==
    {<<RefNational,
       [s \in Sectors |->
           [d \in {e \in SectorDates : <<s, e>> \in P} |-> RefSector(s, d)]]>> :
        P \in SUBSET (Sectors \X {364, 365, 386, 393})}

Inputs == NationalFamily \cup WeekFamily \cup CoverageFamily

\* the aggregate CSV lists its rows by date
AggCsv(nat) ==
    LET rows == {[date |-> d, index |-> nat[d]] : d \in DOMAIN nat}
    IN  SortedBy(rows, {p \in rows \X rows : p[1].date < p[2].date})

\* the sector CSV lists its rows by date, and by sector within a date
SectorCsv(sec) ==
    LET rows == {[date |-> c[2], sector |-> c[1], index |-> sec[c[1]][c[2]]] :
                    c \in {q \in Sectors \X SectorDates : q[2] \in DOMAIN sec[q[1]]}}
    IN  SortedBy(rows, {p \in rows \X rows :
                    \/ p[1].date < p[2].date
                    \/ p[1].date = p[2].date /\ NameLess(p[1].sector, p[2].sector)})

----------------------------------------------------------------------------
(* The program *)

NoCall == [fn |-> "none"]

NoRet == [kind |-> "none"]

Init ==
    /\ \E in \in Inputs :
          /\ csv_agg = AggCsv(in[1])
          /\ csv_sector = SectorCsv(in[2])
    /\ agg_df = <<>>
    /\ sector_df = <<>>
    /\ pc = "start"
    /\ call = NoCall
    /\ ret = NoRet

\* __main__: agg_df = fetch_aggregate(); sector_df = fetch_sectors()
Fetch ==
    /\ pc = "start"
    /\ agg_df' = fetch_aggregate(csv_agg)
    /\ sector_df' = fetch_sectors(csv_sector)
    /\ pc' = "loaded"
    /\ UNCHANGED <<csv_agg, csv_sector, call, ret>>

Returns(c, r) ==
    /\ pc = "loaded"
    /\ call' = c
    /\ ret' = r
    /\ pc' = "returned"
    /\ UNCHANGED <<csv_agg, csv_sector, agg_df, sector_df>>

\* seasonal_means(agg_df.value, agg_df.date)
SeasonalMeansNational ==
    Returns([fn |-> "seasonal_means", of |-> "national"],
            seasonal_means(Column(agg_df, "value"), Column(agg_df, "date"), TRUE))

\* seasonal_means on one sector's "index" column and dates
SeasonalMeansSector ==
    \E s \in Sectors :
        LET df == SelectSeq(sector_df, LAMBDA r : r.sector = s)
        IN  Returns([fn |-> "seasonal_means", of |-> s],
                    seasonal_means(Column(df, "index"), Column(df, "date"), TRUE))

ComputeBreadth ==
    \E today \in CallDates :
        Returns([fn |-> "compute_breadth", today |-> today],
                compute_breadth(sector_df, today))

IdentifyLeadersLaggards ==
    \E today \in CallDates :
        \E r \in identify_leaders_laggards(sector_df, today) :
            Returns([fn |-> "identify_leaders_laggards", today |-> today], r)

SectorLongView ==
    \E s \in Sectors, today \in CallDates, index_has_mean \in BOOLEAN :
        Returns([fn |-> "sector_long_view", sector |-> s, today |-> today],
                sector_long_view(sector_df, s, today, index_has_mean))

\* the sector CSV gains the two observations of a sector it did not hold,
\* and the caller of compute_breadth fetches and asks again
AddSector ==
    /\ pc = "returned"
    /\ call.fn = "compute_breadth"
    /\ \E s \in Sectors, new \in Values, old \in Values :
          /\ \A i \in DOMAIN csv_sector : csv_sector[i].sector # s
          /\ csv_sector' = csv_sector \o
                <<[date |-> call.today - WEEK, sector |-> s, index |-> old],
                  [date |-> call.today, sector |-> s, index |-> new]>>
          /\ sector_df' = fetch_sectors(csv_sector')
          /\ ret' = compute_breadth(sector_df', call.today)
          /\ call' = [fn |-> "compute_breadth", today |-> call.today,
                      added |-> [sector |-> s, new |-> new, old |-> old],
                      before |-> ret]
    /\ pc' = "extended"
    /\ UNCHANGED <<csv_agg, agg_df>>

BuildSummary ==
    \E index_has_mean \in BOOLEAN :
        \E r \in build_summary(agg_df, sector_df, index_has_mean) :
            Returns([fn |-> "build_summary"], r)

Next ==
    \/ Fetch
    \/ SeasonalMeansNational
    \/ SeasonalMeansSector
    \/ ComputeBreadth
    \/ AddSector
    \/ IdentifyLeadersLaggards
    \/ SectorLongView
    \/ BuildSummary

Spec == Init /\ [][Next]_vars

----------------------------------------------------------------------------
(* What the claims speak of, read off the CSV files *)

Called(f) == pc \in {"returned", "extended"} /\ call.fn = f

SectorObs(s, d) ==
    {csv_sector[i].index :
        i \in {j \in DOMAIN csv_sector :
                csv_sector[j].sector = s /\ csv_sector[j].date = d}}

Observed(s, d) == SectorObs(s, d) # {}

Level(s, d) == CHOOSE v \in SectorObs(s, d) : TRUE

AlignedSectors(t) == {s \in Sectors : Observed(s, t) /\ Observed(s, t - 7)}

WeekDelta(s, t) == Level(s, t) - Level(s, t - 7)

ExpandingSectors(t) == {s \in AlignedSectors(t) : Level(s, t) > Level(s, t - 7)}

NationalObs(d) ==
    {csv_agg[i].index : i \in {j \in DOMAIN csv_agg : csv_agg[j].date = d}}

NationalLevel(d) == CHOOSE v \in NationalObs(d) : TRUE

\* the first name of a non-empty set of sector names, lexicographically
LexFirst(S) == CHOOSE s \in S : \A q \in S : s = q \/ NameLess(s, q)

TopSectors(t) ==
    {s \in AlignedSectors(t) :
        \A q \in AlignedSectors(t) : WeekDelta(s, t) >= WeekDelta(q, t)}

BottomSectors(t) ==
    {s \in AlignedSectors(t) :
        \A q \in AlignedSectors(t) : WeekDelta(s, t) <= WeekDelta(q, t)}

----------------------------------------------------------------------------
(* Claims *)

\* C1: compute_breadth fails with an error whenever no sector is observed on
\* both today and today-7, and every breadth_pct it returns is a defined
\* number in [0, 100].
C1_NoAlignedSectorIsAnError ==
    Called("compute_breadth") =>
        /\ AlignedSectors(call.today) = {} => ret.kind = "error"
        /\ ret.kind = "breadth" =>
              /\ ret.pct.den > 0
              /\ 0 <= ret.pct.num
              /\ ret.pct.num <= 100 * ret.pct.den

\* C4: with at least one aligned sector, compute_breadth returns n_compared =
\* the number of sectors observed on both dates and breadth_pct = 100 * (the
\* number of them whose today value is strictly greater) / n_compared.
C4_BreadthOverAlignedSectors ==
    Called("compute_breadth") /\ AlignedSectors(call.today) # {} =>
        /\ ret.kind = "breadth"
        /\ ret.n = Cardinality(AlignedSectors(call.today))
        /\ ret.pct.den > 0
        /\ ret.pct.num * Cardinality(AlignedSectors(call.today))
              = 100 * Cardinality(ExpandingSectors(call.today)) * ret.pct.den

\* a call where one sector expands, one is aligned with equal values and one
\* is observed today but not a week before
C4_Witness ==
    /\ Called("compute_breadth")
    /\ ExpandingSectors(call.today) # {}
    /\ \E s \in AlignedSectors(call.today) : WeekDelta(s, call.today) = 0
    /\ \E s \in Sectors : Observed(s, call.today) /\ ~Observed(s, call.today - 7)
    /\ ret.kind = "breadth"

\* C9: from an input with at least one aligned sector, adding an aligned
\* sector with new > old never decreases breadth_pct, and adding one with
\* new <= old never increases it.
C9_BreadthMonotonic ==
    pc = "extended" /\ call.before.n >= 1 =>
        /\ call.added.new > call.added.old =>
              ret.pct.num * call.before.pct.den >= call.before.pct.num * ret.pct.den
        /\ call.added.new <= call.added.old =>
              ret.pct.num * call.before.pct.den <= call.before.pct.num * ret.pct.den

\* a sector with new <= old joins two aligned sectors of which one expanded
C9_Witness ==
    /\ pc = "extended"
    /\ call.before.n = 2
    /\ call.before.pct.num = 100
    /\ call.added.new <= call.added.old
    /\ ret.n = 3

\* C5: with at least one aligned sector, identify_leaders_laggards returns as
\* leader an aligned sector whose delta_pp = value(today) - value(today-7) is
\* >= that of every aligned sector, and as laggard one whose delta_pp is <=
\* that of every aligned sector.
C5_LeaderAndLaggardAreExtremes ==
    Called("identify_leaders_laggards") /\ AlignedSectors(call.today) # {} =>
        /\ ret.kind = "leaders"
        /\ ret.leader.sector \in AlignedSectors(call.today)
        /\ ret.laggard.sector \in AlignedSectors(call.today)
        /\ ret.leader.delta_pp = WeekDelta(ret.leader.sector, call.today)
        /\ ret.laggard.delta_pp = WeekDelta(ret.laggard.sector, call.today)
        /\ \A s \in AlignedSectors(call.today) :
              /\ ret.leader.delta_pp >= WeekDelta(s, call.today)
              /\ ret.laggard.delta_pp <= WeekDelta(s, call.today)

\* two aligned sectors with different deltas, the first row not the leader,
\* and a third sector observed today but not a week before
C5_Witness ==
    /\ Called("identify_leaders_laggards")
    /\ ret.kind = "leaders"
    /\ Cardinality(AlignedSectors(call.today)) = 2
    /\ ret.leader.delta_pp > ret.laggard.delta_pp
    /\ NameLess(ret.laggard.sector, ret.leader.sector)
    /\ \E s \in Sectors : Observed(s, call.today) /\ ~Observed(s, call.today - 7)

\* C3: among the aligned sectors that share the maximum delta_pp the leader
\* is the lexicographically first, and among those that share the minimum
\* the laggard is the lexicographically first.
C3_TiesGoToTheFirstName ==
    Called("identify_leaders_laggards") /\ ret.kind = "leaders" =>
        /\ ret.leader.sector = LexFirst(TopSectors(call.today))
        /\ ret.laggard.sector = LexFirst(BottomSectors(call.today))

\* the dates of the series a seasonal_means call was given
SeriesDates(of) ==
    IF of = "national"
    THEN {csv_agg[i].date : i \in DOMAIN csv_agg}
    ELSE {csv_sector[i].date :
            i \in {j \in DOMAIN csv_sector : csv_sector[j].sector = of}}

\* C6: seasonal_means never fails, and a season name is a key of its output
\* if and only if some point of the series has start <= date <= end; a key
\* that is present holds the mean of at least one point.
C6_SeasonPresentIffObserved ==
    Called("seasonal_means") =>
        /\ ret.kind = "seasonal"
        /\ DOMAIN ret.out \subseteq SeasonNames
        /\ \A k \in DOMAIN SEASONS :
              SEASONS[k].name \in DOMAIN ret.out
                <=> \E d \in SeriesDates(call.of) :
                        SEASONS[k].start <= d /\ d <= SEASONS[k].end
        /\ \A n \in DOMAIN ret.out : ret.out[n].den > 0

\* a series with points on the last day of Winter 2024-25 and on the last
\* day of Spring 2025, the day after it, and none on the first day of Spring
C6_Witness ==
    /\ Called("seasonal_means")
    /\ {271, 364, 365} \subseteq SeriesDates(call.of)
    /\ 272 \notin SeriesDates(call.of)
    /\ DOMAIN ret.out = {"Winter 2024-25", "Spring 2025"}

\* the mean, as a fraction, of sector s's index values dated within [lo, hi]
RECURSIVE SumLevels(_, _)
SumLevels(s, D) ==
    IF D = {}
    THEN 0
    ELSE LET d == CHOOSE e \in D : TRUE
         IN  Level(s, d) + SumLevels(s, D \ {d})

WindowMean(s, lo, hi) ==
    LET D == {d \in SeriesDates(s) : lo <= d /\ d <= hi}
    IN  [num |-> SumLevels(s, D), den |-> Cardinality(D)]

\* C2: for a sector observed today and four weeks before, sector_long_view
\* returns a record whose seasonal value for every season window is the mean
\* of the sector's index values dated within the window.
C2_SeasonalIsMeanOfIndexValues ==
    /\ Called("sector_long_view")
    /\ Observed(call.sector, call.today)
    /\ Observed(call.sector, call.today - 28)
    =>  /\ ret.kind = "long_view"
        /\ \A k \in DOMAIN SEASONS :
              LET m == WindowMean(call.sector, SEASONS[k].start, SEASONS[k].end)
              IN  IF m.den = 0
                  THEN SEASONS[k].name \notin DOMAIN ret.seasonal
                  ELSE /\ SEASONS[k].name \in DOMAIN ret.seasonal
                       /\ ret.seasonal[SEASONS[k].name] = m

NationalDateSet == {csv_agg[i].date : i \in DOMAIN csv_agg}

\* C7: build_summary returns a Summary only if the national series is
\* observed at today (its latest date), today-7 and today-28, at least one
\* sector is aligned on today and today-7, and the leader and the laggard are
\* observed at today and today-28; the breadth it reports is then defined.
C7_NoPartialSummary ==
    Called("build_summary") /\ ret.kind = "summary" =>
        /\ NationalDateSet # {}
        /\ \E t \in NationalDateSet :
              /\ \A d \in NationalDateSet : d <= t
              /\ {t - 7, t - 28} \subseteq NationalDateSet
              /\ AlignedSectors(t) # {}
              /\ \A s \in {ret.leader.sector, ret.laggard.sector} :
                    Observed(s, t) /\ Observed(s, t - 28)
        /\ ret.breadth_pct.den > 0

\* the national lookups succeed and sectors are aligned, but the only sector
\* with the greatest delta has no observation four weeks back: an error
C7_Witness ==
    /\ Called("build_summary")
    /\ ret.kind = "error"
    /\ {365, 386, 393} \subseteq NationalDateSet
    /\ \A d \in NationalDateSet : d <= 393
    /\ Cardinality(AlignedSectors(393)) >= 2
    /\ \E s \in AlignedSectors(393) :
          /\ ~Observed(s, 365)
          /\ \A q \in AlignedSectors(393) \ {s} :
                /\ WeekDelta(s, 393) > WeekDelta(q, 393)
                /\ Observed(q, 365)

\* C8: a returned Summary is anchored at today = the latest national date:
\* delta_pp = value(today) - value(today-7), delta_month = value(today) -
\* value(today-28), and breadth, leader, laggard and both long views are
\* those of that same today.
C8_OneAnchor ==
    Called("build_summary") /\ ret.kind = "summary" =>
        LET t == ret.today
        IN  /\ t \in NationalDateSet
            /\ \A d \in NationalDateSet : d <= t
            /\ ret.latest = NationalLevel(t)
            /\ ret.delta_pp = NationalLevel(t) - NationalLevel(t - 7)
            /\ ret.delta_month = NationalLevel(t) - NationalLevel(t - 28)
            /\ ret.n_sector = Cardinality(AlignedSectors(t))
            /\ ret.breadth_pct.num * Cardinality(AlignedSectors(t))
                  = 100 * Cardinality(ExpandingSectors(t)) * ret.breadth_pct.den
            /\ ret.leader.sector \in TopSectors(t)
            /\ ret.leader.delta_pp = WeekDelta(ret.leader.sector, t)
            /\ ret.laggard.sector \in BottomSectors(t)
            /\ ret.laggard.delta_pp = WeekDelta(ret.laggard.sector, t)
            /\ ret.lead_curr = Level(ret.leader.sector, t)
            /\ ret.lead_mo = Level(ret.leader.sector, t) - Level(ret.leader.sector, t - 28)
            /\ ret.lag_curr = Level(ret.laggard.sector, t)
            /\ ret.lag_mo = Level(ret.laggard.sector, t) - Level(ret.laggard.sector, t - 28)

\* a Summary is returned while a sector's series holds a date after the
\* latest national one, on which that sector is aligned too
C8_Witness ==
    /\ Called("build_summary")
    /\ ret.kind = "summary"
    /\ \E s \in Sectors : Observed(s, ret.today + 7) /\ Observed(s, ret.today)
    /\ ret.delta_pp # ret.delta_month

\* C10: in a returned Summary leader.delta_pp >= laggard.delta_pp; a positive
\* breadth means a positive leader delta; a breadth below 100 means a laggard
\* delta <= 0; and each long view's current level is the today value its
\* sector's delta_pp was formed from.
C10_JoinsAgree ==
    Called("build_summary") /\ ret.kind = "summary" =>
        /\ ret.leader.delta_pp >= ret.laggard.delta_pp
        /\ ret.breadth_pct.num > 0 => ret.leader.delta_pp > 0
        /\ ret.breadth_pct.num < 100 * ret.breadth_pct.den => ret.laggard.delta_pp <= 0
        /\ ret.lead_curr = ret.leader.index_new
        /\ ret.lag_curr = ret.laggard.index_new

\* a Summary whose breadth lies strictly between 0 and 100
C10_Witness ==
    /\ Called("build_summary")
    /\ ret.kind = "summary"
    /\ ret.breadth_pct.num > 0
    /\ ret.breadth_pct.num < 100 * ret.breadth_pct.den
    /\ ret.leader.sector # ret.laggard.sector

====
